---------------------------- MODULE Spec2Model ----------------------------
(***************************************************************************)
(* ATRescueBoard (HV Rescue Shield sketch, src/ATRescue/main.cpp).         *)
(*                                                                         *)
(* The sketch is one sequential control flow.  Every function of the       *)
(* sketch is written here as the sequence of the elementary operations it  *)
(* performs (digitalWrite, pinMode, delay, PORTD/DDRD/PIND accesses,       *)
(* digitalRead samples, busy waits, Serial calls), in source order.  The   *)
(* state machine executes one elementary operation per step.  The target   *)
(* AVR, the run button and the operator's serial input are the             *)
(* environment.                                                            *)
(***************************************************************************)
EXTENDS Naturals, Sequences, FiniteSets, TLC

VARIABLES
    mode,        \* byte mode (line 199), chosen in setup()
    pc,          \* position in loop(): the block of loop() being executed
    ops,         \* the operations of the current block still to be executed
    hw,          \* pins, data port, UART, locals of the called function, target
    lfuse,       \* loop(): desired low fuse (line 605)
    hfuse,       \* loop(): desired high fuse
    efuse,       \* loop(): desired extended fuse (line 609)
    read_lfuse,  \* loop(): fuses read from the target (line 606)
    read_hfuse,
    read_efuse,
    fn,          \* the function whose body is executing ("loop" when none is called)
    call,        \* arguments of the call in progress
    button,      \* the debounce loop: its two reads of BUTTON and the delay between
    ask,         \* fuse_ask: progress and the characters read after 'x'
    access       \* the select lines (BS1, BS2) seen at each fuse access, per selector

vars == << mode, pc, ops, hw, lfuse, hfuse, efuse, read_lfuse, read_hfuse,
           read_efuse, fn, call, button, ask, access >>

---------------------------------------------------------------------------
(* User defined settings and enums, lines 99-109 and 195-196.              *)

BURN_EFUSE == 0

LFUSE_SEL == 0
HFUSE_SEL == 1
EFUSE_SEL == 2

ATMEGA == "ATMEGA"
TINY2313 == "TINY2313"
HVSP == "HVSP"
Modes == {ATMEGA, TINY2313, HVSP}

HIGH == "HIGH"
LOW == "LOW"
INPUT == "INPUT"
OUTPUT == "OUTPUT"

Byte == 0..255

(* Pin assignments, lines 133-148 and 204-205.  PAGEL and BS2 are global   *)
(* variables that setup() reassigns in TINY2313 mode (lines 594-595).      *)
VCC == "VCC"
RDY == "RDY"
OE == "OE"
WR == "WR"
BS1 == "BS1"
XA0 == "XA0"
XA1 == "XA1"
RST == "RST"
XTAL1 == "XTAL1"
BUTTON == "BUTTON"
SCI == BS1
SDO == RDY
SII == XA0
SDI == XA1

PAGEL(md) == IF md = TINY2313 THEN BS1 ELSE "A5"
BS2(md) == IF md = TINY2313 THEN XA1 ELSE "D9"

Pins == {VCC, RDY, OE, WR, BS1, XA0, XA1, RST, XTAL1, BUTTON, "A5", "D9"}

(* Serial instructions for HVSP mode, lines 155-189.                        *)
HVSP_READ_LFUSE_DATA == 4
HVSP_READ_LFUSE_INSTR1 == 76
HVSP_READ_LFUSE_INSTR2 == 104
HVSP_READ_LFUSE_INSTR3 == 108
HVSP_WRITE_LFUSE_DATA == 64
HVSP_WRITE_LFUSE_INSTR1 == 76
HVSP_WRITE_LFUSE_INSTR2 == 44
HVSP_WRITE_LFUSE_INSTR3 == 100
HVSP_WRITE_LFUSE_INSTR4 == 108
HVSP_READ_HFUSE_DATA == 4
HVSP_READ_HFUSE_INSTR1 == 76
HVSP_READ_HFUSE_INSTR2 == 122
HVSP_READ_HFUSE_INSTR3 == 126
HVSP_WRITE_HFUSE_DATA == 64
HVSP_WRITE_HFUSE_INSTR1 == 76
HVSP_WRITE_HFUSE_INSTR2 == 44
HVSP_WRITE_HFUSE_INSTR3 == 116
HVSP_WRITE_HFUSE_INSTR4 == 124
HVSP_READ_EFUSE_DATA == 4
HVSP_READ_EFUSE_INSTR1 == 76
HVSP_READ_EFUSE_INSTR2 == 106
HVSP_READ_EFUSE_INSTR3 == 110
HVSP_WRITE_EFUSE_DATA == 64
HVSP_WRITE_EFUSE_INSTR1 == 76
HVSP_WRITE_EFUSE_INSTR2 == 44
HVSP_WRITE_EFUSE_INSTR3 == 102
HVSP_WRITE_EFUSE_INSTR4 == 110

---------------------------------------------------------------------------
(* Bounds of the model.                                                    *)

\* Elapsed-time counters (microseconds since an edge) stop counting here.
TimerCap == 100

---------------------------------------------------------------------------
(* Bit arithmetic on bytes.                                                *)

Pow2(n) == IF n = 0 THEN 1 ELSE IF n = 1 THEN 2 ELSE IF n = 2 THEN 4
           ELSE IF n = 3 THEN 8 ELSE IF n = 4 THEN 16 ELSE IF n = 5 THEN 32
           ELSE IF n = 6 THEN 64 ELSE IF n = 7 THEN 128 ELSE 256

Bit(x, n) == (x \div Pow2(n)) % 2

\* (x << i) & 0x80, as lines 418 and 423 compute it (int arithmetic)
ShiftedMsb(x, i) == ((x * Pow2(i)) \div 128) % 2

\* x | mask for a mask with a single bit set
OrBit(x, n) == IF Bit(x, n) = 1 THEN x ELSE x + Pow2(n)

Min(a, b) == IF a < b THEN a ELSE b

---------------------------------------------------------------------------
(* Elementary operations.  Every operation is a record of the same shape:  *)
(* op names it, a is a pin or a destination, b and c are numbers.          *)

Op(o, x, y, z) == [op |-> o, a |-> x, b |-> y, c |-> z]

digitalWrite(pin, lvl) == Op("digitalWrite", pin, IF lvl = HIGH THEN 1 ELSE 0, 0)
pinMode(pin, d) == Op("pinMode", pin, IF d = OUTPUT THEN 1 ELSE 0, 0)
delay(ms) == Op("delay", "", ms * 1000, 0)
delayMicroseconds(us) == Op("delay", "", us, 0)
SetPORTD(v) == Op("PORTD", "", v, 0)
SetDDRD(v) == Op("DDRD", "", v, 0)
ReadPIND == Op("PIND", "", 0, 0)
\* if (digitalRead(pin) == HIGH) response |= (1 << bit)
SampleInto(pin, bit) == Op("sample", pin, bit, 0)
\* while (digitalRead(pin) == LOW);
WaitWhileLow(pin) == Op("wait", pin, 0, 0)
ClearResponse == Op("response", "", 0, 0)
Return(f) == Op("return", f, 0, 0)
Serial_begin == Op("Serial.begin", "", 0, 0)
Serial_end == Op("Serial.end", "", 0, 0)
Serial_print(what) == Op("Serial.print", what, 0, 0)
SetTXC0 == Op("UCSR0A", "", 0, 0)
WaitTXC0 == Op("TXC0", "", 0, 0)
\* calls made by loop()
Call_HVSP_read(dest, data, instr) == Op("HVSP_read", dest, data, instr)
Call_HVSP_write(data, instr) == Op("HVSP_write", "", data, instr)
Call_fuse_read(dest, select) == Op("fuse_read", dest, 0, select)
Call_fuse_burn(fuse, select) == Op("fuse_burn", "", fuse, select)

---------------------------------------------------------------------------
(* The functions of the sketch.                                            *)

\* void sclk(void), lines 208-216
sclk ==
    << delay(1), digitalWrite(SCI, HIGH), delay(1), digitalWrite(SCI, LOW) >>

\* void strobe_xtal(void), lines 218-224
strobe_xtal ==
    << delay(1), digitalWrite(XTAL1, HIGH), delay(1), digitalWrite(XTAL1, LOW) >>

\* int hex2dec(byte c), lines 226-234: '0' = 48, '9' = 57, 'A' = 65, 'F' = 70
hex2dec(c) ==
    IF c >= 48 /\ c <= 57 THEN c - 48
    ELSE IF c >= 65 /\ c <= 70 THEN c - 65 + 10
    ELSE c

\* send_cmd if the bus were made an output only after the strobe
send_cmd_LateBus(md, command) ==
    << digitalWrite(XA1, HIGH), digitalWrite(XA0, LOW), digitalWrite(BS1, LOW) >>
    \o (IF md # TINY2313 THEN << digitalWrite(BS2(md), LOW) >> ELSE << >>)
    \o << SetPORTD(command) >>
    \o strobe_xtal
    \o << SetDDRD(255), SetPORTD(0), SetDDRD(0) >>

\* void send_cmd(byte command), lines 236-262 (MEGA == 0)
send_cmd(md, command) ==
    << digitalWrite(XA1, HIGH), digitalWrite(XA0, LOW), digitalWrite(BS1, LOW) >>
    \o (IF md # TINY2313 THEN << digitalWrite(BS2(md), LOW) >> ELSE << >>)
    \o << SetPORTD(command), SetDDRD(255) >>
    \o strobe_xtal
    \o << SetPORTD(0), SetDDRD(0) >>

\* the switch of fuse_burn if it drove both select lines high for hfuse
fuse_burn_select_BothHigh(md, select) ==
    IF select = HFUSE_SEL
        THEN << digitalWrite(BS1, HIGH), digitalWrite(BS2(md), HIGH) >>
    ELSE IF select = LFUSE_SEL
        THEN << digitalWrite(BS1, LOW), digitalWrite(BS2(md), LOW) >>
    ELSE IF select = EFUSE_SEL
        THEN << digitalWrite(BS1, LOW), digitalWrite(BS2(md), HIGH) >>
    ELSE << >>

\* the switch of fuse_burn, lines 297-310
fuse_burn_select(md, select) ==
    IF select = HFUSE_SEL
        THEN << digitalWrite(BS1, HIGH), digitalWrite(BS2(md), LOW) >>
    ELSE IF select = LFUSE_SEL
        THEN << digitalWrite(BS1, LOW), digitalWrite(BS2(md), LOW) >>
    ELSE IF select = EFUSE_SEL
        THEN << digitalWrite(BS1, LOW), digitalWrite(BS2(md), HIGH) >>
    ELSE << >>

\* fuse_burn if it did not poll RDY after the WR pulse
fuse_burn_NoPoll(md, fuse, select) ==
    send_cmd(md, 64)
    \o << digitalWrite(XA1, LOW), digitalWrite(XA0, HIGH), digitalWrite(BS1, LOW) >>
    \o (IF md # TINY2313 THEN << digitalWrite(BS2(md), LOW) >> ELSE << >>)
    \o << delay(1), SetPORTD(fuse), SetDDRD(255) >>
    \o strobe_xtal
    \o << SetPORTD(0), SetDDRD(0) >>
    \o fuse_burn_select(md, select)
    \o << delay(1), digitalWrite(WR, LOW), delay(1), digitalWrite(WR, HIGH),
          digitalWrite(BS1, LOW), digitalWrite(BS2(md), LOW),
          Return("fuse_burn") >>

\* void fuse_burn(byte fuse, int select), lines 264-323
fuse_burn(md, fuse, select) ==
    send_cmd(md, 64)
    \o << digitalWrite(XA1, LOW), digitalWrite(XA0, HIGH), digitalWrite(BS1, LOW) >>
    \o (IF md # TINY2313 THEN << digitalWrite(BS2(md), LOW) >> ELSE << >>)
    \o << delay(1), SetPORTD(fuse), SetDDRD(255) >>
    \o strobe_xtal
    \o << SetPORTD(0), SetDDRD(0) >>
    \o fuse_burn_select(md, select)
    \o << delay(1), digitalWrite(WR, LOW), delay(1), digitalWrite(WR, HIGH),
          WaitWhileLow(RDY),
          digitalWrite(BS1, LOW), digitalWrite(BS2(md), LOW),
          Return("fuse_burn") >>

\* fuse_read's switch if it drove, for hfuse, the lines as fuse_burn drives them
fuse_read_select_as_burn(md, select) ==
    IF select = LFUSE_SEL
        THEN << digitalWrite(BS2(md), LOW), digitalWrite(BS1, LOW) >>
    ELSE IF select = HFUSE_SEL
        THEN << digitalWrite(BS2(md), LOW), digitalWrite(BS1, HIGH) >>
    ELSE IF select = EFUSE_SEL
        THEN << digitalWrite(BS2(md), HIGH), digitalWrite(BS1, LOW) >>
    ELSE << >>

\* the switch of fuse_read, lines 339-355
fuse_read_select(md, select) ==
    IF select = LFUSE_SEL
        THEN << digitalWrite(BS2(md), LOW), digitalWrite(BS1, LOW) >>
    ELSE IF select = HFUSE_SEL
        THEN << digitalWrite(BS2(md), HIGH), digitalWrite(BS1, HIGH) >>
    ELSE IF select = EFUSE_SEL
        THEN << digitalWrite(BS2(md), HIGH), digitalWrite(BS1, LOW) >>
    ELSE << >>

\* fuse_read if it read the bus after releasing OE
fuse_read_LateSample(md, select) ==
    send_cmd(md, 4)
    \o << SetPORTD(0), SetDDRD(0) >>
    \o fuse_read_select(md, select)
    \o << digitalWrite(OE, LOW), delay(1), digitalWrite(OE, HIGH), ReadPIND,
          Return("fuse_read") >>

\* byte fuse_read(int select), lines 325-369
fuse_read(md, select) ==
    send_cmd(md, 4)
    \o << SetPORTD(0), SetDDRD(0) >>
    \o fuse_read_select(md, select)
    \o << digitalWrite(OE, LOW), delay(1), ReadPIND, digitalWrite(OE, HIGH),
          Return("fuse_read") >>

\* the pass of the for loop if it sent the least significant bit first
HVSP_read_bit_LsbFirst(data, instr, i) ==
    << digitalWrite(SDI, IF Bit(data, i) = 1 THEN HIGH ELSE LOW),
       digitalWrite(SII, IF Bit(instr, i) = 1 THEN HIGH ELSE LOW) >>
    \o sclk
    \o (IF i < 7 THEN << SampleInto(SDO, 6 - i) >> ELSE << >>)

\* the pass of the for loop if it stored each sample one bit higher
HVSP_read_bit_high(data, instr, i) ==
    << digitalWrite(SDI, IF ShiftedMsb(data, i) = 1 THEN HIGH ELSE LOW),
       digitalWrite(SII, IF ShiftedMsb(instr, i) = 1 THEN HIGH ELSE LOW) >>
    \o sclk
    \o (IF i < 7 THEN << SampleInto(SDO, 7 - i) >> ELSE << >>)

\* one pass of the for loop of HVSP_read, lines 417-435
HVSP_read_bit(data, instr, i) ==
    << digitalWrite(SDI, IF ShiftedMsb(data, i) = 1 THEN HIGH ELSE LOW),
       digitalWrite(SII, IF ShiftedMsb(instr, i) = 1 THEN HIGH ELSE LOW) >>
    \o sclk
    \o (IF i < 7 THEN << SampleInto(SDO, 6 - i) >> ELSE << >>)

\* a frame's tail if SDO were sampled once more, after the tenth pulse
HVSP_trailer_Sampled ==
    << digitalWrite(SDI, LOW), digitalWrite(SII, LOW) >> \o sclk
    \o << SampleInto(SDO, 0) >>
    \o << digitalWrite(SDI, LOW), digitalWrite(SII, LOW) >> \o sclk

\* a frame's tail if it clocked one trailing bit only
HVSP_trailer_single ==
    << digitalWrite(SDI, LOW), digitalWrite(SII, LOW) >> \o sclk

\* the two trailing zero bits, lines 438-442 and 473-477
HVSP_trailer ==
    << digitalWrite(SDI, LOW), digitalWrite(SII, LOW) >> \o sclk
    \o << digitalWrite(SDI, LOW), digitalWrite(SII, LOW) >> \o sclk

\* byte HVSP_read(byte data, byte instr), lines 395-445
HVSP_read(data, instr) ==
    << ClearResponse,
       digitalWrite(SCI, LOW), digitalWrite(SDI, LOW), digitalWrite(SII, LOW) >>
    \o sclk
    \o << SampleInto(SDO, 7) >>
    \o HVSP_read_bit(data, instr, 0) \o HVSP_read_bit(data, instr, 1)
    \o HVSP_read_bit(data, instr, 2) \o HVSP_read_bit(data, instr, 3)
    \o HVSP_read_bit(data, instr, 4) \o HVSP_read_bit(data, instr, 5)
    \o HVSP_read_bit(data, instr, 6) \o HVSP_read_bit(data, instr, 7)
    \o HVSP_trailer
    \o << Return("HVSP_read") >>

\* the pass of the for loop of HVSP_write if it set SII before SDI
HVSP_write_bit_SiiFirst(data, instr, i) ==
    << digitalWrite(SII, IF ShiftedMsb(instr, i) = 1 THEN HIGH ELSE LOW),
       digitalWrite(SDI, IF ShiftedMsb(data, i) = 1 THEN HIGH ELSE LOW) >>
    \o sclk

\* one pass of the for loop of HVSP_write, lines 458-470
HVSP_write_bit(data, instr, i) ==
    << digitalWrite(SDI, IF ShiftedMsb(data, i) = 1 THEN HIGH ELSE LOW),
       digitalWrite(SII, IF ShiftedMsb(instr, i) = 1 THEN HIGH ELSE LOW) >>
    \o sclk

\* void HVSP_write(byte data, byte instr), lines 447-478
HVSP_write(data, instr) ==
    << digitalWrite(SCI, LOW), digitalWrite(SDI, LOW), digitalWrite(SII, LOW) >>
    \o sclk
    \o HVSP_write_bit(data, instr, 0) \o HVSP_write_bit(data, instr, 1)
    \o HVSP_write_bit(data, instr, 2) \o HVSP_write_bit(data, instr, 3)
    \o HVSP_write_bit(data, instr, 4) \o HVSP_write_bit(data, instr, 5)
    \o HVSP_write_bit(data, instr, 6) \o HVSP_write_bit(data, instr, 7)
    \o HVSP_trailer
    \o << Return("HVSP_write") >>

---------------------------------------------------------------------------
(* The environment: the target AVR in its socket.  It follows the          *)
(* high-voltage programming sections of the datasheets the sketch names    *)
(* (lines 16-20): commands and data are latched on XTAL1, a fuse is        *)
(* written on the WR pulse and read while OE is low; in serial mode the    *)
(* same transfers are framed as 11 SCI pulses.  The instruction values it  *)
(* decodes are written out here and not taken from the sketch's table.     *)
(*   tkind: "good" honours writes, "stuck" signals ready but keeps its     *)
(*   fuses, "dead" never enters programming mode (absent or damaged part). *)

TargetKinds == {"good", "stuck", "dead"}

\* fuses of a freshly inserted part (the ATmega168 defaults of lines 107-109)
FactoryFuses == (LFUSE_SEL :> 98) @@ (HFUSE_SEL :> 223) @@ (EFUSE_SEL :> 249)

InProg(h) == h.tkind # "dead" /\ h.level[VCC] = HIGH /\ h.level[RST] = LOW

\* the byte the host drives on DATA: a line is driven where DDRD has a 1
HostBus(h) ==
    LET b(n) == IF Bit(h.DDRD, n) = 1 THEN Bit(h.PORTD, n) * Pow2(n) ELSE 0
    IN b(0) + b(1) + b(2) + b(3) + b(4) + b(5) + b(6) + b(7)

\* the fuse the select lines address for a read (255 stands for the lock bits)
TargetReadByte(h, bs1, bs2) ==
    IF bs1 = LOW /\ bs2 = LOW THEN h.tfuse[LFUSE_SEL]
    ELSE IF bs1 = HIGH /\ bs2 = HIGH THEN h.tfuse[HFUSE_SEL]
    ELSE IF bs1 = LOW /\ bs2 = HIGH THEN h.tfuse[EFUSE_SEL]
    ELSE 255

\* the fuses after a write addressed by the select lines
TargetWrite(h, bs1, bs2) ==
    IF h.tkind # "good" THEN h.tfuse
    ELSE IF bs1 = LOW /\ bs2 = LOW THEN [h.tfuse EXCEPT ![LFUSE_SEL] = h.tlatch]
    ELSE IF bs1 = HIGH /\ bs2 = LOW THEN [h.tfuse EXCEPT ![HFUSE_SEL] = h.tlatch]
    ELSE IF bs1 = LOW /\ bs2 = HIGH THEN [h.tfuse EXCEPT ![EFUSE_SEL] = h.tlatch]
    ELSE h.tfuse

\* what the target drives on DATA while OE is low after a read command
TargetBus(md, h) ==
    IF InProg(h) /\ md # HVSP /\ h.level[OE] = LOW /\ h.tcmd = 4
    THEN TargetReadByte(h, h.level[BS1], h.level[BS2(md)])
    ELSE 0

\* PIND: driven lines read back PORTD, the others read the target
PIND(md, h) ==
    LET t == TargetBus(md, h)
        b(n) == (IF Bit(h.DDRD, n) = 1 THEN Bit(h.PORTD, n) ELSE Bit(t, n)) * Pow2(n)
    IN b(0) + b(1) + b(2) + b(3) + b(4) + b(5) + b(6) + b(7)

\* RDY/!BSY in parallel mode
RdyLevel(h) == IF InProg(h) /\ ~h.tbusy THEN HIGH ELSE LOW

\* SDO in serial mode: low while busy, the addressed fuse most significant
\* bit first after pulses 1..8 of the frame that follows a read instruction,
\* high otherwise
SdoLevel(h) ==
    IF ~InProg(h) \/ h.tbusy THEN LOW
    ELSE IF h.toe /\ h.tcnt >= 1 /\ h.tcnt <= 8
        THEN (IF Bit(h.tout, 8 - h.tcnt) = 1 THEN HIGH ELSE LOW)
    ELSE HIGH

\* the target's power-on state
TargetReset(h) ==
    [h EXCEPT !.tcmd = 0, !.tlatch = 0, !.tbusy = FALSE, !.tcnt = 0,
              !.tsdi = 0, !.tsii = 0, !.tout = 0, !.toe = FALSE]

\* a complete serial frame (data, instr) has been shifted in
TargetFrame(h, data, instr) ==
    LET bs1 == IF Bit(instr, 4) = 1 THEN HIGH ELSE LOW
        bs2 == IF Bit(instr, 1) = 1 THEN HIGH ELSE LOW
        g == [h EXCEPT !.tcnt = 0, !.tsdi = 0, !.tsii = 0, !.toe = FALSE]
    IN  IF instr = 76 THEN [g EXCEPT !.tcmd = data]
        ELSE IF instr = 44 THEN [g EXCEPT !.tlatch = data]
        ELSE IF instr \in {100, 116, 102} /\ h.tcmd = 64
            THEN [g EXCEPT !.tbusy = TRUE, !.tfuse = TargetWrite(h, bs1, bs2)]
        ELSE IF instr \in {104, 122, 106} /\ h.tcmd = 4
            THEN [g EXCEPT !.tout = TargetReadByte(h, bs1, bs2), !.toe = TRUE]
        ELSE g

\* the target's reaction to the host changing a pin: old and new are the
\* states before and after the write
TargetReact(md, old, new) ==
    LET rose(p) == old.level[p] = LOW /\ new.level[p] = HIGH
        fell(p) == old.level[p] = HIGH /\ new.level[p] = LOW
    IN  IF rose(RST) \/ fell(VCC) THEN TargetReset(new)
        ELSE IF ~InProg(new) THEN new
        ELSE IF md # HVSP /\ rose(XTAL1)
            THEN (IF new.level[XA1] = HIGH /\ new.level[XA0] = LOW
                      THEN [new EXCEPT !.tcmd = HostBus(new)]
                  ELSE IF new.level[XA1] = LOW /\ new.level[XA0] = HIGH
                      THEN [new EXCEPT !.tlatch = HostBus(new)]
                  ELSE new)
        ELSE IF md # HVSP /\ fell(WR) /\ new.tcmd = 64
            THEN [new EXCEPT !.tbusy = TRUE,
                             !.tfuse = TargetWrite(new, new.level[BS1],
                                                   new.level[BS2(md)])]
        ELSE IF md = HVSP /\ rose(SCI)
            THEN LET k == new.tcnt + 1
                     sdi == IF new.level[SDI] = HIGH THEN 1 ELSE 0
                     sii == IF new.level[SII] = HIGH THEN 1 ELSE 0
                     s == IF k >= 2 /\ k <= 9
                          THEN [new EXCEPT !.tsdi = (new.tsdi * 2 + sdi) % 256,
                                           !.tsii = (new.tsii * 2 + sii) % 256]
                          ELSE new
                 IN  IF k = 11 THEN TargetFrame(s, s.tsdi, s.tsii)
                     ELSE [s EXCEPT !.tcnt = k]
        ELSE new

---------------------------------------------------------------------------
(* The host's pins and registers.                                          *)

\* digitalRead(pin) for the pins the target drives
digitalRead(md, h, pin) ==
    IF h.dir[pin] = OUTPUT THEN h.level[pin]
    ELSE IF pin = RDY THEN (IF md = HVSP THEN SdoLevel(h) ELSE RdyLevel(h))
    ELSE h.level[pin]

\* the state setup() leaves, lines 521-601, with a part in the socket
setup(md, kind) ==
    [ level |-> [p \in Pins |-> IF p \in {RST, BUTTON} THEN HIGH ELSE LOW],
      dir |-> [p \in Pins |-> IF p \in {RDY, BUTTON} THEN INPUT ELSE OUTPUT],
      PORTD |-> 0, DDRD |-> 0,
      Serial |-> TRUE, tx |-> FALSE, TXC0 |-> FALSE, console |-> {},
      rx |-> << >>, rxn |-> 0,
      response |-> 0, fuse |-> 0,
      pulses |-> 0, sinceVCC |-> 0, sinceRST |-> 0,
      tkind |-> kind, tfuse |-> FactoryFuses,
      tcmd |-> 0, tlatch |-> 0, tbusy |-> FALSE, tcnt |-> 0,
      tsdi |-> 0, tsii |-> 0, tout |-> 0, toe |-> FALSE ]

\* digitalWrite(pin, lvl): the pin, the elapsed-time counters that restart
\* on the VCC and RST edges, the count of completed SCI pulses
WritePin(h, pin, lvl) ==
    [h EXCEPT !.level[pin] = lvl,
              !.sinceVCC = IF pin = VCC /\ h.level[VCC] # lvl THEN 0 ELSE @,
              !.sinceRST = IF pin = RST /\ h.level[RST] # lvl THEN 0 ELSE @,
              !.pulses = IF pin = SCI /\ h.level[SCI] = HIGH /\ lvl = LOW
                         THEN Min(@ + 1, 12) ELSE @]

\* delay(ms) and delayMicroseconds(us)
Elapse(h, us) ==
    [h EXCEPT !.sinceVCC = IF h.level[VCC] = HIGH THEN Min(TimerCap, @ + us) ELSE 0,
              !.sinceRST = IF h.level[RST] = LOW THEN Min(TimerCap, @ + us) ELSE 0]

\* the effect of one elementary operation on the pins, registers and target
ApplyOp(md, o, h) ==
    IF o.op = "digitalWrite"
        THEN TargetReact(md, h, WritePin(h, o.a, IF o.b = 1 THEN HIGH ELSE LOW))
    ELSE IF o.op = "pinMode"
        THEN [h EXCEPT !.dir[o.a] = IF o.b = 1 THEN OUTPUT ELSE INPUT]
    ELSE IF o.op = "delay" THEN Elapse(h, o.b)
    ELSE IF o.op = "PORTD" THEN [h EXCEPT !.PORTD = o.b]
    ELSE IF o.op = "DDRD" THEN [h EXCEPT !.DDRD = o.b]
    ELSE IF o.op = "PIND" THEN [h EXCEPT !.fuse = PIND(md, h)]
    ELSE IF o.op = "response" THEN [h EXCEPT !.response = o.b]
    ELSE IF o.op = "sample"
        THEN (IF digitalRead(md, h, o.a) = HIGH
              THEN [h EXCEPT !.response = OrBit(@, o.b)] ELSE h)
    ELSE IF o.op = "Serial.begin" THEN [h EXCEPT !.Serial = TRUE]
    ELSE IF o.op = "Serial.end" THEN [h EXCEPT !.Serial = FALSE]
    ELSE IF o.op = "Serial.print"
        THEN [h EXCEPT !.tx = TRUE, !.console = @ \cup {o.a}]
    ELSE IF o.op = "UCSR0A" THEN [h EXCEPT !.TXC0 = FALSE]
    ELSE h

---------------------------------------------------------------------------
(* The blocks of loop(), lines 603-838, each as its operations in order.   *)

\* lines 613-623
PromptOps ==
    << Serial_print("Insert target AVR and press button."), Serial_end,
       SetDDRD(3), SetPORTD(0) >>

\* "Initialize pins to enter programming mode", lines 632-652
InitOps(md) ==
    << SetPORTD(0), SetDDRD(0),
       digitalWrite(PAGEL(md), LOW), digitalWrite(XA1, LOW),
       digitalWrite(XA0, LOW), digitalWrite(BS1, LOW),
       digitalWrite(BS2(md), LOW), digitalWrite(WR, LOW),
       digitalWrite(OE, LOW) >>
    \o (IF md = HVSP
        THEN << digitalWrite(SDI, LOW), digitalWrite(SII, LOW),
                pinMode(SDO, OUTPUT), digitalWrite(SDO, LOW) >>
        ELSE << >>)

\* the enter sequence if SDO were left an output
EnterOps_SdoKept(md) ==
    << digitalWrite(VCC, HIGH), delayMicroseconds(80), digitalWrite(RST, LOW) >>
    \o (IF md = HVSP THEN << delayMicroseconds(1) >> ELSE << >>)
    \o << delayMicroseconds(10), digitalWrite(OE, HIGH), digitalWrite(WR, HIGH),
          delay(1) >>

\* the enter sequence if RST were pulled low right after VCC
EnterOps_RstFirst(md) ==
    << digitalWrite(VCC, HIGH), digitalWrite(RST, LOW), delayMicroseconds(80) >>
    \o (IF md = HVSP
        THEN << delayMicroseconds(1), pinMode(SDO, INPUT) >>
        ELSE << >>)
    \o << delayMicroseconds(10), digitalWrite(OE, HIGH), digitalWrite(WR, HIGH),
          delay(1) >>

\* the enter sequence if SDO were released after the 10 us delay
EnterOps_SdoLate(md) ==
    << digitalWrite(VCC, HIGH), delayMicroseconds(80), digitalWrite(RST, LOW) >>
    \o << delayMicroseconds(10) >>
    \o (IF md = HVSP
        THEN << delayMicroseconds(1), pinMode(SDO, INPUT) >>
        ELSE << >>)
    \o << digitalWrite(OE, HIGH), digitalWrite(WR, HIGH), delay(1) >>

\* the enter sequence if 12 V were applied to RESET before VCC is switched on
EnterOps_RstBeforeVcc(md) ==
    << digitalWrite(RST, LOW), delayMicroseconds(80), digitalWrite(VCC, HIGH) >>
    \o (IF md = HVSP
        THEN << delayMicroseconds(1), pinMode(SDO, INPUT) >>
        ELSE << >>)
    \o << delayMicroseconds(10), digitalWrite(OE, HIGH), digitalWrite(WR, HIGH),
          delay(1) >>

\* "Enter programming mode", lines 654-668
EnterOps(md) ==
    << digitalWrite(VCC, HIGH), delayMicroseconds(80), digitalWrite(RST, LOW) >>
    \o (IF md = HVSP
        THEN << delayMicroseconds(1), pinMode(SDO, INPUT) >>
        ELSE << >>)
    \o << delayMicroseconds(10), digitalWrite(OE, HIGH), digitalWrite(WR, HIGH),
          delay(1) >>

\* the three read frames if the response of the first were stored as well
HVSP_read_fuse_FirstStored(select) ==
    IF select = LFUSE_SEL THEN
        << Call_HVSP_read("read_lfuse", HVSP_READ_LFUSE_DATA, HVSP_READ_LFUSE_INSTR1),
           Call_HVSP_read("", 0, HVSP_READ_LFUSE_INSTR2),
           Call_HVSP_read("read_lfuse", 0, HVSP_READ_LFUSE_INSTR3) >>
    ELSE IF select = HFUSE_SEL THEN
        << Call_HVSP_read("read_hfuse", HVSP_READ_HFUSE_DATA, HVSP_READ_HFUSE_INSTR1),
           Call_HVSP_read("", 0, HVSP_READ_HFUSE_INSTR2),
           Call_HVSP_read("read_hfuse", 0, HVSP_READ_HFUSE_INSTR3) >>
    ELSE
        << Call_HVSP_read("read_efuse", HVSP_READ_EFUSE_DATA, HVSP_READ_EFUSE_INSTR1),
           Call_HVSP_read("", 0, HVSP_READ_EFUSE_INSTR2),
           Call_HVSP_read("read_efuse", 0, HVSP_READ_EFUSE_INSTR3) >>

\* the three frames that read one fuse in HVSP mode, lines 675-686, 767-777
HVSP_read_fuse(select) ==
    IF select = LFUSE_SEL THEN
        << Call_HVSP_read("", HVSP_READ_LFUSE_DATA, HVSP_READ_LFUSE_INSTR1),
           Call_HVSP_read("", 0, HVSP_READ_LFUSE_INSTR2),
           Call_HVSP_read("read_lfuse", 0, HVSP_READ_LFUSE_INSTR3) >>
    ELSE IF select = HFUSE_SEL THEN
        << Call_HVSP_read("", HVSP_READ_HFUSE_DATA, HVSP_READ_HFUSE_INSTR1),
           Call_HVSP_read("", 0, HVSP_READ_HFUSE_INSTR2),
           Call_HVSP_read("read_hfuse", 0, HVSP_READ_HFUSE_INSTR3) >>
    ELSE
        << Call_HVSP_read("", HVSP_READ_EFUSE_DATA, HVSP_READ_EFUSE_INSTR1),
           Call_HVSP_read("", 0, HVSP_READ_EFUSE_INSTR2),
           Call_HVSP_read("read_efuse", 0, HVSP_READ_EFUSE_INSTR3) >>

\* the four write frames if loop() did not wait for SDO after them
HVSP_write_fuse_NoWait(fuse, select) ==
    IF select = LFUSE_SEL THEN
        << Call_HVSP_write(HVSP_WRITE_LFUSE_DATA, HVSP_WRITE_LFUSE_INSTR1),
           Call_HVSP_write(fuse, HVSP_WRITE_LFUSE_INSTR2),
           Call_HVSP_write(0, HVSP_WRITE_LFUSE_INSTR3),
           Call_HVSP_write(0, HVSP_WRITE_LFUSE_INSTR4) >>
    ELSE IF select = HFUSE_SEL THEN
        << Call_HVSP_write(HVSP_WRITE_HFUSE_DATA, HVSP_WRITE_HFUSE_INSTR1),
           Call_HVSP_write(fuse, HVSP_WRITE_HFUSE_INSTR2),
           Call_HVSP_write(0, HVSP_WRITE_HFUSE_INSTR3),
           Call_HVSP_write(0, HVSP_WRITE_HFUSE_INSTR4) >>
    ELSE
        << Call_HVSP_write(HVSP_WRITE_EFUSE_DATA, HVSP_WRITE_EFUSE_INSTR1),
           Call_HVSP_write(fuse, HVSP_WRITE_EFUSE_INSTR2),
           Call_HVSP_write(0, HVSP_WRITE_EFUSE_INSTR3),
           Call_HVSP_write(0, HVSP_WRITE_EFUSE_INSTR4) >>

\* the four frames and the wait that write one fuse in HVSP mode, lines 746-763
HVSP_write_fuse(fuse, select) ==
    (IF select = LFUSE_SEL THEN
        << Call_HVSP_write(HVSP_WRITE_LFUSE_DATA, HVSP_WRITE_LFUSE_INSTR1),
           Call_HVSP_write(fuse, HVSP_WRITE_LFUSE_INSTR2),
           Call_HVSP_write(0, HVSP_WRITE_LFUSE_INSTR3),
           Call_HVSP_write(0, HVSP_WRITE_LFUSE_INSTR4) >>
     ELSE IF select = HFUSE_SEL THEN
        << Call_HVSP_write(HVSP_WRITE_HFUSE_DATA, HVSP_WRITE_HFUSE_INSTR1),
           Call_HVSP_write(fuse, HVSP_WRITE_HFUSE_INSTR2),
           Call_HVSP_write(0, HVSP_WRITE_HFUSE_INSTR3),
           Call_HVSP_write(0, HVSP_WRITE_HFUSE_INSTR4) >>
     ELSE
        << Call_HVSP_write(HVSP_WRITE_EFUSE_DATA, HVSP_WRITE_EFUSE_INSTR1),
           Call_HVSP_write(fuse, HVSP_WRITE_EFUSE_INSTR2),
           Call_HVSP_write(0, HVSP_WRITE_EFUSE_INSTR3),
           Call_HVSP_write(0, HVSP_WRITE_EFUSE_INSTR4) >>)
    \o << WaitWhileLow(SDO) >>

\* "Get current fuse settings stored on target device", lines 674-697
ReadOps(md) ==
    IF md = HVSP
    THEN HVSP_read_fuse(LFUSE_SEL) \o HVSP_read_fuse(HFUSE_SEL)
         \o (IF BURN_EFUSE = 1 THEN HVSP_read_fuse(EFUSE_SEL) ELSE << >>)
    ELSE << Call_fuse_read("read_lfuse", LFUSE_SEL),
            Call_fuse_read("read_hfuse", HFUSE_SEL) >>
         \o (IF BURN_EFUSE = 1
             THEN << Call_fuse_read("read_efuse", EFUSE_SEL) >> ELSE << >>)

\* lines 699-711
ReportOps ==
    << Serial_begin, Serial_print("Existing fuse values:"),
       Serial_print("LFUSE: "), Serial_print("HFUSE: ") >>
    \o (IF BURN_EFUSE = 1 THEN << Serial_print("EFUSE: ") >> ELSE << >>)

\* lines 713-724 (INTERACTIVE == 1)
AskOps ==
    << Serial_print("Enter desired LFUSE hex value (ie. 0x62): "),
       Op("fuse_ask", "lfuse", 0, 0),
       Serial_print("Enter desired HFUSE hex value (ie. 0xDF): "),
       Op("fuse_ask", "hfuse", 0, 0) >>
    \o (IF BURN_EFUSE = 1
        THEN << Serial_print("Enter desired EFUSE hex value (ie. 0xF9): "),
                Op("fuse_ask", "efuse", 0, 0) >>
        ELSE << >>)

\* lines 737-741 if TXC0 were reset after the print and not before it
TxWaitOps_ResetLate ==
    << Serial_print("Burning fuses..."), SetTXC0, WaitTXC0, Serial_end >>

\* lines 737-741 if loop() went on to burn right after the print
TxWaitOps_Open == << SetTXC0, Serial_print("Burning fuses...") >>

\* lines 737-741
TxWaitOps ==
    << SetTXC0, Serial_print("Burning fuses..."), WaitTXC0, Serial_end >>

\* the burn block if the parallel modes burned the low fuse first
BurnOpsIf_LowFirst(md, lf, hf, ef, burn_efuse) ==
    IF md = HVSP
    THEN HVSP_write_fuse(lf, LFUSE_SEL) \o HVSP_write_fuse(hf, HFUSE_SEL)
         \o (IF burn_efuse = 1 THEN HVSP_write_fuse(ef, EFUSE_SEL) ELSE << >>)
    ELSE << Call_fuse_burn(lf, LFUSE_SEL), Call_fuse_burn(hf, HFUSE_SEL) >>
         \o (IF burn_efuse = 1 THEN << Call_fuse_burn(ef, EFUSE_SEL) >> ELSE << >>)

\* "Now burn desired fuses", lines 745-764 and 783-792
BurnOpsIf(md, lf, hf, ef, burn_efuse) ==
    IF md = HVSP
    THEN HVSP_write_fuse(lf, LFUSE_SEL) \o HVSP_write_fuse(hf, HFUSE_SEL)
         \o (IF burn_efuse = 1 THEN HVSP_write_fuse(ef, EFUSE_SEL) ELSE << >>)
    ELSE << Call_fuse_burn(hf, HFUSE_SEL), Call_fuse_burn(lf, LFUSE_SEL) >>
         \o (IF burn_efuse = 1 THEN << Call_fuse_burn(ef, EFUSE_SEL) >> ELSE << >>)

\* the burn block as the build's BURN_EFUSE compiles it
BurnOps(md, lf, hf, ef) == BurnOpsIf(md, lf, hf, ef, BURN_EFUSE)

\* "Read back fuse contents to verify burn worked", lines 766-778 and 794-803
VerifyOps(md) ==
    IF md = HVSP
    THEN HVSP_read_fuse(LFUSE_SEL) \o HVSP_read_fuse(HFUSE_SEL)
         \o (IF BURN_EFUSE = 1 THEN HVSP_read_fuse(EFUSE_SEL) ELSE << >>)
    ELSE << Call_fuse_read("read_lfuse", LFUSE_SEL),
            Call_fuse_read("read_hfuse", HFUSE_SEL) >>
         \o (IF BURN_EFUSE = 1
             THEN << Call_fuse_read("read_efuse", EFUSE_SEL) >> ELSE << >>)
         \o << digitalWrite(OE, HIGH) >>

\* lines 806-819
ReportVerifyOps ==
    << Serial_begin, Serial_print("Read LFUSE: "), Serial_print("Read HFUSE: ") >>
    \o (IF BURN_EFUSE = 1 THEN << Serial_print("Read EFUSE: ") >> ELSE << >>)
    \o << Serial_print("Burn complete."),
          Serial_print("It is now safe to remove the target AVR.") >>

\* the exit sequence if VCC were switched off before RST is released
ExitOps_VccFirst(md) ==
    << SetPORTD(0), SetDDRD(0),
       digitalWrite(VCC, LOW), delay(1),
       digitalWrite(OE, LOW), digitalWrite(WR, LOW),
       digitalWrite(PAGEL(md), LOW), digitalWrite(XA1, LOW),
       digitalWrite(XA0, LOW), digitalWrite(BS1, LOW),
       digitalWrite(BS2(md), LOW), digitalWrite(RST, HIGH) >>

\* "All done, disable outputs", lines 821-837
ExitOps(md) ==
    << SetPORTD(0), SetDDRD(0),
       digitalWrite(RST, HIGH), delay(1),
       digitalWrite(OE, LOW), digitalWrite(WR, LOW),
       digitalWrite(PAGEL(md), LOW), digitalWrite(XA1, LOW),
       digitalWrite(XA0, LOW), digitalWrite(BS1, LOW),
       digitalWrite(BS2(md), LOW), digitalWrite(VCC, LOW) >>

---------------------------------------------------------------------------
(* The operator's serial input: the characters a read may return.          *)
(* 'x' = 120, '1' = 49, 'G' = 71                                           *)
Chars == {120, 49, 71}

NoCall == Op("", "", 0, 0)
NoButton == [first |-> "none", gap |-> 0, second |-> "none"]
NoAsk == [stage |-> "idle", hi |-> 0, lo |-> 0]
NoAccess == [burn |-> [s \in {LFUSE_SEL, HFUSE_SEL, EFUSE_SEL} |-> << >>],
             read |-> [s \in {LFUSE_SEL, HFUSE_SEL, EFUSE_SEL} |-> << >>],
             order |-> << >>]

Init ==
    /\ mode \in Modes
    /\ pc = "setup"
    /\ ops = << >>
    /\ hw \in {setup(mode, k) : k \in TargetKinds}
    /\ lfuse = 0 /\ hfuse = 0 /\ efuse = 0
    /\ read_lfuse = 0 /\ read_hfuse = 0 /\ read_efuse = 0
    /\ fn = "loop"
    /\ call = NoCall
    /\ button = NoButton
    /\ ask = NoAsk
    /\ access = NoAccess

locals == << lfuse, hfuse, efuse, read_lfuse, read_hfuse, read_efuse >>

---------------------------------------------------------------------------
(* Execution of the elementary operations.                                 *)

AtOp(kind) == fn # "fuse_ask" /\ ops # << >> /\ Head(ops).op = kind

\* the fuse an HVSP write frame programs: the frame with instruction 3
HVSP_burn_select(instr) ==
    IF instr = HVSP_WRITE_LFUSE_INSTR3 THEN << LFUSE_SEL >>
    ELSE IF instr = HVSP_WRITE_HFUSE_INSTR3 THEN << HFUSE_SEL >>
    ELSE IF instr = HVSP_WRITE_EFUSE_INSTR3 THEN << EFUSE_SEL >>
    ELSE << >>

\* the levels of BS1 and BS2 at the moment a fuse is accessed: when
\* fuse_burn drives WR low (line 313), when fuse_read drives OE low (line 358);
\* the order in which the fuses are burned: at WR low in fuse_burn, at the
\* last clock pulse of the HVSP_write frame with instruction 3
Observe(md, f, c, o, h, acc) ==
    LET lines == << h.level[BS1], h.level[BS2(md)] >> IN
    IF o.op = "digitalWrite" /\ o.b = 0 /\ o.a = WR /\ f = "fuse_burn"
        THEN [acc EXCEPT !.burn[c.c] = lines, !.order = Append(@, c.c)]
    ELSE IF o.op = "digitalWrite" /\ o.b = 0 /\ o.a = SCI /\ f = "HVSP_write"
            /\ h.level[SCI] = HIGH /\ h.pulses = 10
        THEN [acc EXCEPT !.order = @ \o HVSP_burn_select(c.c)]
    ELSE IF o.op = "digitalWrite" /\ o.b = 0 /\ o.a = OE /\ f = "fuse_read"
        THEN [acc EXCEPT !.read[c.c] = lines]
    ELSE acc

\* the operation at the head of ops acts on the pins and registers
Run ==
    /\ hw' = ApplyOp(mode, Head(ops), hw)
    /\ ops' = Tail(ops)
    /\ access' = Observe(mode, fn, call, Head(ops), hw, access)
    /\ UNCHANGED << mode, pc, locals, fn, call, button, ask >>

DigitalWrite == AtOp("digitalWrite") /\ Run
PinMode == AtOp("pinMode") /\ Run
Delay == AtOp("delay") /\ Run
WritePORTD == AtOp("PORTD") /\ Run
WriteDDRD == AtOp("DDRD") /\ Run
ReadBus == AtOp("PIND") /\ Run
ClearResp == AtOp("response") /\ Run
SampleSDO == AtOp("sample") /\ Run
SerialBegin == AtOp("Serial.begin") /\ Run
SerialPrint == AtOp("Serial.print") /\ Run
ResetTXC0 == AtOp("UCSR0A") /\ Run

\* Serial.end(): the core's end() first waits for the transmit buffer to drain
SerialEnd == AtOp("Serial.end") /\ ~hw.tx /\ Run

\* while(!(UCSR0A & _BV(TXC0))); line 739
WaitTxComplete ==
    /\ AtOp("TXC0")
    /\ hw.TXC0
    /\ ops' = Tail(ops)
    /\ UNCHANGED << mode, pc, hw, locals, fn, call, button, ask, access >>

\* while(digitalRead(RDY) == LOW); lines 318, 750, 756, 763: the loop is left
\* when the pin reads HIGH; a LOW read leaves every variable as it is
WaitReady ==
    /\ AtOp("wait")
    /\ digitalRead(mode, hw, Head(ops).a) = HIGH
    /\ ops' = Tail(ops)
    /\ UNCHANGED << mode, pc, hw, locals, fn, call, button, ask, access >>

\* the body a call executes
Body(md, o) ==
    IF o.op = "HVSP_read" THEN HVSP_read(o.b, o.c)
    ELSE IF o.op = "HVSP_write" THEN HVSP_write(o.b, o.c)
    ELSE IF o.op = "fuse_read" THEN fuse_read(md, o.c)
    ELSE fuse_burn(md, o.b, o.c)

\* a call from loop(): the callee's body is executed before the rest
Enter(name) ==
    /\ fn = "loop"
    /\ fn' = name
    /\ call' = Head(ops)
    /\ ops' = Body(mode, Head(ops)) \o Tail(ops)
    /\ hw' = [hw EXCEPT !.pulses = 0]
    /\ UNCHANGED << mode, pc, locals, button, ask, access >>

CallHVSPRead == AtOp("HVSP_read") /\ Enter("HVSP_read")
CallHVSPWrite == AtOp("HVSP_write") /\ Enter("HVSP_write")
CallFuseRead == AtOp("fuse_read") /\ Enter("fuse_read")
CallFuseBurn == AtOp("fuse_burn") /\ Enter("fuse_burn")

\* the value a function returns
ReturnValue(f, h) == IF f = "HVSP_read" THEN h.response ELSE h.fuse

\* return, and the assignment of the result in loop(); the callee's locals
\* (response, fuse) go out of scope
ReturnFn ==
    /\ AtOp("return")
    /\ fn' = "loop"
    /\ ops' = Tail(ops)
    /\ read_lfuse' = IF call.a = "read_lfuse" THEN ReturnValue(fn, hw) ELSE read_lfuse
    /\ read_hfuse' = IF call.a = "read_hfuse" THEN ReturnValue(fn, hw) ELSE read_hfuse
    /\ read_efuse' = IF call.a = "read_efuse" THEN ReturnValue(fn, hw) ELSE read_efuse
    /\ hw' = [hw EXCEPT !.response = 0, !.fuse = 0]
    /\ UNCHANGED << mode, pc, lfuse, hfuse, efuse, call, button, ask, access >>

---------------------------------------------------------------------------
(* byte fuse_ask(void), lines 371-393.  hw.rx holds the characters the     *)
(* operator has sent ahead and hw.rxn counts those already read: after     *)
(* while (Serial.available() == 0); Serial.read() returns the next of them *)
(* or, when all are read, the character the operator sends then, any of    *)
(* Chars.                                                                  *)

\* the characters the next Serial.read() may return
Incoming(h) == IF h.rxn < Len(h.rx) THEN {h.rx[h.rxn + 1]} ELSE Chars

\* the receive buffer after Serial.read()
Consumed(h) == [h EXCEPT !.rxn = IF @ < Len(h.rx) THEN @ + 1 ELSE @]

CallFuseAsk ==
    /\ AtOp("fuse_ask")
    /\ fn = "loop"
    /\ fn' = "fuse_ask"
    /\ call' = Head(ops)
    /\ ops' = Tail(ops)
    /\ ask' = [stage |-> "x", hi |-> 0, lo |-> 0]
    /\ UNCHANGED << mode, pc, hw, locals, button, access >>

\* while (incomingByte != 'x'), lines 376-379
FuseAskSync ==
    /\ fn = "fuse_ask" /\ ask.stage = "x"
    /\ \E c \in Incoming(hw) :
          ask' = IF c = 120 THEN [ask EXCEPT !.stage = "hi"] ELSE ask
    /\ hw' = Consumed(hw)
    /\ UNCHANGED << mode, pc, ops, locals, fn, call, button, access >>

\* serbuffer[0] = Serial.read(), lines 382-383
FuseAskHigh ==
    /\ fn = "fuse_ask" /\ ask.stage = "hi"
    /\ \E c \in Incoming(hw) : ask' = [ask EXCEPT !.stage = "lo", !.hi = c]
    /\ hw' = Consumed(hw)
    /\ UNCHANGED << mode, pc, ops, locals, fn, call, button, access >>

\* the value if the first character were taken as the low digit
FuseValue_LowFirst(hi, lo) == (hex2dec(hi) + hex2dec(lo) * 16) % 256

\* fuse = hex2dec(serbuffer[1]) + hex2dec(serbuffer[0]) * 16, a byte
FuseValue(hi, lo) == (hex2dec(lo) + hex2dec(hi) * 16) % 256

\* serbuffer[1] = Serial.read(); the value; the echo; return, lines 384-391
FuseAskLow ==
    /\ fn = "fuse_ask" /\ ask.stage = "lo"
    /\ \E c \in Incoming(hw) :
          LET fuse == FuseValue(ask.hi, c) IN
          /\ ask' = [ask EXCEPT !.stage = "done", !.lo = c]
          /\ lfuse' = IF call.a = "lfuse" THEN fuse ELSE lfuse
          /\ hfuse' = IF call.a = "hfuse" THEN fuse ELSE hfuse
          /\ efuse' = IF call.a = "efuse" THEN fuse ELSE efuse
    /\ hw' = [Consumed(hw) EXCEPT !.tx = TRUE, !.console = @ \cup {"<fuse, HEX>"}]
    /\ fn' = "loop"
    /\ UNCHANGED << mode, pc, ops, read_lfuse, read_hfuse, read_efuse,
                    call, button, access >>

---------------------------------------------------------------------------
(* loop(): the control flow between its blocks.                            *)

BlockDone(b) == pc = b /\ ops = << >> /\ fn = "loop"

Begin(b, o) ==
    /\ pc' = b
    /\ ops' = o
    /\ UNCHANGED << mode, hw, locals, fn, call, button, ask, access >>

\* loop() is entered, line 603: its locals are fresh; the operator has put
\* a part into the socket
LoopTop ==
    /\ (BlockDone("setup") \/ BlockDone("exit"))
    /\ pc' = "prompt"
    /\ ops' = PromptOps
    /\ \E k \in TargetKinds :
          hw' = [TargetReset(hw) EXCEPT !.tkind = k, !.tfuse = FactoryFuses,
                                        !.console = {}]
    /\ lfuse' = 0 /\ hfuse' = 0 /\ efuse' = 0
    /\ read_lfuse' = 0 /\ read_hfuse' = 0 /\ read_efuse' = 0
    /\ button' = NoButton
    /\ ask' = NoAsk
    /\ call' = NoCall
    /\ access' = NoAccess
    /\ UNCHANGED << mode, fn >>

\* while (digitalRead(BUTTON) == HIGH); line 627
ButtonWait ==
    /\ BlockDone("prompt")
    /\ \E b \in {LOW, HIGH} :
          /\ button' = [first |-> b, gap |-> 0, second |-> "none"]
          /\ pc' = IF b = HIGH THEN "prompt" ELSE "debounce"
    /\ UNCHANGED << mode, ops, hw, locals, fn, call, ask, access >>

\* delay(100), line 628
Debounce ==
    /\ BlockDone("debounce")
    /\ pc' = "confirm"
    /\ hw' = ApplyOp(mode, delay(100), hw)
    /\ button' = [button EXCEPT !.gap = 100]
    /\ UNCHANGED << mode, ops, locals, fn, call, ask, access >>

\* the debounce loop if it broke out whatever the second read
AfterConfirm_Always(b) == "init"

\* the block that follows a button read of b at line 629
AfterConfirm(b) == IF b = LOW THEN "init" ELSE "prompt"

\* if (digitalRead(BUTTON) == LOW) break; lines 629-630
ButtonConfirm ==
    /\ BlockDone("confirm")
    /\ \E b \in {LOW, HIGH} :
          /\ button' = [button EXCEPT !.second = b]
          /\ pc' = AfterConfirm(b)
          /\ ops' = IF AfterConfirm(b) = "init" THEN InitOps(mode) ELSE << >>
    /\ UNCHANGED << mode, hw, locals, fn, call, ask, access >>

\* loop() if the report came straight after the enter sequence
ReportFuses_AfterEnter ==
    (BlockDone("enter") \/ BlockDone("read")) /\ Begin("report", ReportOps)

EnterProgMode == BlockDone("init") /\ Begin("enter", EnterOps(mode))
ReadFuses == BlockDone("enter") /\ Begin("read", ReadOps(mode))
ReportFuses == BlockDone("read") /\ Begin("report", ReportOps)
AskFuses == BlockDone("report") /\ Begin("ask", AskOps)
TxWait == BlockDone("ask") /\ Begin("txc", TxWaitOps)
BurnFuses == BlockDone("txc") /\ Begin("burn", BurnOps(mode, lfuse, hfuse, efuse))
VerifyFuses == BlockDone("burn") /\ Begin("verify", VerifyOps(mode))
ReportVerify == BlockDone("verify") /\ Begin("report2", ReportVerifyOps)
ExitProgMode == BlockDone("report2") /\ Begin("exit", ExitOps(mode))

---------------------------------------------------------------------------
(* The environment's own steps.                                            *)

\* the target finishes programming a fuse and releases RDY / SDO
TargetReady ==
    /\ hw.tbusy /\ InProg(hw)
    /\ hw' = [hw EXCEPT !.tbusy = FALSE]
    /\ UNCHANGED << mode, pc, ops, locals, fn, call, button, ask, access >>

\* the UART has shifted out the last character: TXC0 is set
TxComplete ==
    /\ hw.tx
    /\ hw' = [hw EXCEPT !.tx = FALSE, !.TXC0 = TRUE]
    /\ UNCHANGED << mode, pc, ops, locals, fn, call, button, ask, access >>

---------------------------------------------------------------------------

Next ==
    \/ LoopTop \/ ButtonWait \/ Debounce \/ ButtonConfirm
    \/ EnterProgMode \/ ReadFuses \/ ReportFuses \/ AskFuses \/ TxWait
    \/ BurnFuses \/ VerifyFuses \/ ReportVerify \/ ExitProgMode
    \/ DigitalWrite \/ PinMode \/ Delay \/ WritePORTD \/ WriteDDRD \/ ReadBus
    \/ ClearResp \/ SampleSDO \/ WaitReady \/ ReturnFn
    \/ CallHVSPRead \/ CallHVSPWrite \/ CallFuseRead \/ CallFuseBurn
    \/ SerialBegin \/ SerialPrint \/ SerialEnd \/ ResetTXC0 \/ WaitTxComplete
    \/ CallFuseAsk \/ FuseAskSync \/ FuseAskHigh \/ FuseAskLow
    \/ TargetReady \/ TxComplete

Spec == Init /\ [][Next]_vars

---------------------------------------------------------------------------
(* Frame-level runs of the HVSP engine: one call of HVSP_read or           *)
(* HVSP_write with given arguments, executed by the same steps, on a       *)
(* target that is in programming mode.                                     *)

RECURSIVE RunOps(_, _, _, _)
\* the state after the operations s[i..Len(s)] (no calls, no waits)
RunOps(md, s, i, h) ==
    IF i > Len(s) THEN h ELSE RunOps(md, s, i + 1, ApplyOp(md, s[i], h))

\* the state at line 668: setup(), then the enter sequence of loop()
Entered(md, kind) ==
    RunOps(md, InitOps(md) \o EnterOps(md), 1, setup(md, kind))

\* the instruction bytes paired with every data byte, and the data bytes
\* paired with every instruction byte
InstrSamples == {0, 255, HVSP_READ_LFUSE_INSTR1, HVSP_WRITE_HFUSE_INSTR4}
DataSamples == {0, 255, HVSP_READ_LFUSE_DATA, HVSP_WRITE_LFUSE_DATA}
FrameArgs == (Byte \X InstrSamples) \cup (DataSamples \X Byte)

FrameInit ==
    /\ mode = HVSP
    /\ pc = "frame"
    /\ \E a \in FrameArgs :
          ops \in { << Call_HVSP_read("", a[1], a[2]) >>,
                    << Call_HVSP_write(a[1], a[2]) >> }
    /\ hw = Entered(HVSP, "good")
    /\ lfuse = 0 /\ hfuse = 0 /\ efuse = 0
    /\ read_lfuse = 0 /\ read_hfuse = 0 /\ read_efuse = 0
    /\ fn = "loop"
    /\ call = NoCall
    /\ button = NoButton
    /\ ask = NoAsk
    /\ access = NoAccess

FrameNext ==
    \/ CallHVSPRead \/ CallHVSPWrite \/ ReturnFn
    \/ DigitalWrite \/ Delay \/ ClearResp \/ SampleSDO

FrameSpec == FrameInit /\ [][FrameNext]_vars

---------------------------------------------------------------------------
(* Engine-level runs: one fuse written and then read back through the      *)
(* engine of the mode (fuse_burn and fuse_read, or the four write frames,  *)
(* the wait and the three read frames of loop()), for every selector and   *)
(* every byte, on a target in programming mode that honours the write.     *)

Selectors == {LFUSE_SEL, HFUSE_SEL, EFUSE_SEL}

ReadDest(select) ==
    IF select = LFUSE_SEL THEN "read_lfuse"
    ELSE IF select = HFUSE_SEL THEN "read_hfuse" ELSE "read_efuse"

WriteThenRead(md, v, select) ==
    IF md = HVSP THEN HVSP_write_fuse(v, select) \o HVSP_read_fuse(select)
    ELSE << Call_fuse_burn(v, select), Call_fuse_read(ReadDest(select), select) >>

EngineInit ==
    /\ mode \in Modes
    /\ pc = "engine"
    /\ hw = Entered(mode, "good")
    /\ \E v \in Byte, select \in Selectors :
          /\ ops = WriteThenRead(mode, v, select)
          /\ lfuse = (IF select = LFUSE_SEL THEN v ELSE 0)
          /\ hfuse = (IF select = HFUSE_SEL THEN v ELSE 0)
          /\ efuse = (IF select = EFUSE_SEL THEN v ELSE 0)
    /\ read_lfuse = 0 /\ read_hfuse = 0 /\ read_efuse = 0
    /\ fn = "loop"
    /\ call = NoCall
    /\ button = NoButton
    /\ ask = NoAsk
    /\ access = NoAccess

EngineNext ==
    \/ CallHVSPRead \/ CallHVSPWrite \/ CallFuseRead \/ CallFuseBurn \/ ReturnFn
    \/ DigitalWrite \/ Delay \/ WritePORTD \/ WriteDDRD \/ ReadBus
    \/ ClearResp \/ SampleSDO \/ WaitReady \/ TargetReady

EngineSpec == EngineInit /\ [][EngineNext]_vars

(* The sketch with its scheduling: the processor always executes the next  *)
(* operation, and the environment's enabled steps happen.                  *)
FairSpec == Spec /\ WF_vars(Next)

---------------------------------------------------------------------------
(* Runs of fuse_ask alone: one call, on every stream the operator may have *)
(* sent that is made of up to MaxStream characters of Chars followed by up *)
(* to two characters of AskChars; when the stream is read to its end the   *)
(* operator sends more.                                                    *)

MaxStream == 3

\* '0'-'9', 'A'-'F', 'x', and the neighbours of the digit ranges:
\* '/' = 47, ':' = 58, '@' = 64, 'G' = 71, 'a' = 97
AskChars == (48..57) \cup (65..70) \cup {120, 47, 58, 64, 71, 97}

Streams ==
    { p \o d : p \in UNION { [1..n -> Chars] : n \in 0..MaxStream },
               d \in UNION { [1..n -> AskChars] : n \in 0..2 } }

AskInit ==
    /\ mode \in Modes
    /\ pc = "ask"
    /\ ops = << Op("fuse_ask", "lfuse", 0, 0) >>
    /\ \E s \in Streams : hw = [setup(mode, "good") EXCEPT !.rx = s]
    /\ lfuse = 0 /\ hfuse = 0 /\ efuse = 0
    /\ read_lfuse = 0 /\ read_hfuse = 0 /\ read_efuse = 0
    /\ fn = "loop"
    /\ call = NoCall
    /\ button = NoButton
    /\ ask = NoAsk
    /\ access = NoAccess

AskNext == CallFuseAsk \/ FuseAskSync \/ FuseAskHigh \/ FuseAskLow

AskSpec == AskInit /\ [][AskNext]_vars

---------------------------------------------------------------------------
(* Properties of the HVSP frame transfer (FrameSpec).                      *)

FrameFns == {"HVSP_read", "HVSP_write"}

\* C1: every HVSP frame transfer, HVSP_read and HVSP_write alike, has made
\* exactly 11 clock pulses on SCI (SCI high, then SCI low) when it returns,
\* whatever the data byte and the instruction byte, and returns with SCI low.
C1_FrameLength ==
    (AtOp("return") /\ fn \in FrameFns)
        => (hw.pulses = 11 /\ hw.level[SCI] = LOW)

C1_Witness ==
    /\ AtOp("return") /\ fn = "HVSP_write"
    /\ call.b = 255 /\ call.c = HVSP_WRITE_HFUSE_INSTR4
    /\ hw.pulses = 11

---------------------------------------------------------------------------
(* Properties of the engines (EngineSpec).                                 *)

Accessed(s) == access.burn[s] # << >> /\ access.read[s] # << >>

EngineDone == pc = "engine" /\ ops = << >> /\ fn = "loop"

\* C3: in HVSP mode, on a target that stores the programmed byte and shifts
\* it out on SDO, the four write frames of value v for selector s followed
\* directly by the three read frames of selector s return v, for every byte
\* v and every selector s.
C3_RoundTrip ==
    (EngineDone /\ mode = HVSP)
        => (read_lfuse = lfuse /\ read_hfuse = hfuse /\ read_efuse = efuse)

C3_Witness ==
    /\ EngineDone /\ mode = HVSP
    /\ efuse = 165 /\ read_efuse = 165
    /\ hw.tfuse[EFUSE_SEL] = 165

---------------------------------------------------------------------------
(* Properties of the session (Spec, FairSpec).                             *)

\* C4: when the target never raises its ready line after a burn (RDY in the
\* parallel modes, SDO in HVSP mode), the session does not hang: it is
\* aborted and the sketch is back at its prompt, waiting for the button.
C4_NoHang ==
    (pc = "burn" /\ AtOp("wait") /\ hw.tkind = "dead") ~> (pc = "prompt")

VerifyMismatch == "VerifyMismatch"

\* C5: once verification is over, for each fuse that is burned the value read
\* back equals the value requested, or a mismatch warning has been printed
\* to the operator.
C5_MismatchReported ==
    (pc = "exit")
        => \/ read_lfuse = lfuse /\ read_hfuse = hfuse
              /\ (BURN_EFUSE = 1 => read_efuse = efuse)
           \/ VerifyMismatch \in hw.console

SessionBlocks ==
    {"init", "enter", "read", "report", "ask", "txc", "burn", "verify",
     "report2", "exit"}

\* C6: the sketch leaves the button wait and runs the enter sequence only
\* when BUTTON was read pressed (LOW) twice, 100 ms apart; when the second
\* read finds it released, no session starts and the wait is resumed.
C6_Debounce ==
    /\ pc \in SessionBlocks
          => button = [first |-> LOW, gap |-> 100, second |-> LOW]
    /\ button.second = HIGH => BlockDone("prompt")

C6_Witness ==
    button = [first |-> LOW, gap |-> 100, second |-> HIGH] /\ BlockDone("prompt")

IsHexDigit(c) == c \in (48..57) \cup (65..70)

\* C7: a fuse value is produced by fuse_ask only when both characters that
\* follow the 'x' are hexadecimal digits ('0'-'9', 'A'-'F').
C7_RejectsNonHex ==
    ask.stage = "done" => (IsHexDigit(ask.hi) /\ IsHexDigit(ask.lo))

\* the lifecycle state a position in loop() belongs to
LifeState ==
    IF pc \in {"setup", "prompt", "debounce", "confirm"} THEN "Idle"
    ELSE IF pc = "init" \/ (pc = "enter" /\ ops # << >>) THEN "AwaitingTarget"
    ELSE IF pc = "enter" THEN "Entered"
    ELSE IF pc = "read" THEN "ReadingInitial"
    ELSE IF pc \in {"report", "ask", "txc"} THEN "AwaitingDesiredValues"
    ELSE IF pc = "burn" THEN "Burning"
    ELSE IF pc \in {"verify", "report2"} \/ (pc = "exit" /\ ops # << >>)
        THEN "Verifying"
    ELSE "Exited"

LifeNext(s) ==
    IF s = "Idle" THEN "AwaitingTarget"
    ELSE IF s = "AwaitingTarget" THEN "Entered"
    ELSE IF s = "Entered" THEN "ReadingInitial"
    ELSE IF s = "ReadingInitial" THEN "AwaitingDesiredValues"
    ELSE IF s = "AwaitingDesiredValues" THEN "Burning"
    ELSE IF s = "Burning" THEN "Verifying"
    ELSE IF s = "Verifying" THEN "Exited"
    ELSE "Idle"

\* C8: a session goes through Idle, AwaitingTarget, Entered, ReadingInitial,
\* AwaitingDesiredValues, Burning, Verifying, Exited in this order: every
\* step keeps the lifecycle state or moves to the next one, and Idle is
\* entered again only from Exited.
C8_LifecycleOrder ==
    [][LifeState' = LifeState \/ LifeState' = LifeNext(LifeState)]_vars

C8_Witness == LifeState = "Exited" /\ hw.tkind = "good"

Rises(p) == hw.level[p] = LOW /\ hw'.level[p] = HIGH
Falls(p) == hw.level[p] = HIGH /\ hw'.level[p] = LOW

EngineFns == {"fuse_read", "fuse_burn", "HVSP_read", "HVSP_write"}

\* C9: in every mode VCC is raised before RST is pulled low, RST is pulled
\* low only once 80 us have passed since VCC rose, OE and WR are raised only
\* once 10 us have passed since RST fell, and no fuse read or burn is
\* called before OE and WR are high.
C9_EnterOrder ==
    [][ /\ Rises(VCC) => hw.level[RST] = HIGH
        /\ Falls(RST) => (hw.level[VCC] = HIGH /\ hw.sinceVCC >= 80)
        /\ \A p \in {OE, WR} :
              Rises(p) => (hw.level[RST] = LOW /\ hw.sinceRST >= 10)
        /\ (fn = "loop" /\ fn' \in EngineFns)
              => (hw.level[OE] = HIGH /\ hw.level[WR] = HIGH)
      ]_vars

C9_Witness ==
    /\ BlockDone("enter")
    /\ hw.level[VCC] = HIGH /\ hw.level[RST] = LOW
    /\ hw.level[OE] = HIGH /\ hw.level[WR] = HIGH
    /\ hw.sinceVCC >= 80 /\ hw.sinceRST >= 10

\* C10: in HVSP mode SDO is an output only while the enter sequence is
\* prepared and run, driven low, with OE and WR still low, and for no more
\* than 1 us after RST is pulled low: it is an input when the 10 us delay
\* starts.  In the two parallel modes the pin (RDY) is never an output.
C10_SdoRelease ==
    /\ mode # HVSP => hw.dir[RDY] = INPUT
    /\ hw.dir[SDO] = OUTPUT
          => /\ pc \in {"init", "enter"}
             /\ hw.level[SDO] = LOW
             /\ hw.level[OE] = LOW /\ hw.level[WR] = LOW
             /\ hw.level[RST] = LOW => hw.sinceRST <= 1
    /\ (pc = "enter" /\ AtOp("delay") /\ Head(ops).b = 10)
          => hw.dir[SDO] = INPUT

C10_Witness ==
    /\ mode = HVSP /\ pc = "enter"
    /\ hw.dir[SDO] = OUTPUT /\ hw.level[RST] = LOW /\ hw.sinceRST = 1

ControlLines(md) == {OE, WR, PAGEL(md), XA1, XA0, BS1, BS2(md)}

---------------------------------------------------------------------------
(* The burn block of loop() on its own, compiled with and without          *)
(* BURN_EFUSE, for a few fuse values, on a target in programming mode.     *)

BurnValues == {0, 98, 255}

BurnInit ==
    /\ mode \in Modes
    /\ pc = "burn"
    /\ hw = Entered(mode, "good")
    /\ lfuse \in BurnValues /\ hfuse \in BurnValues /\ efuse \in BurnValues
    /\ \E e \in {0, 1} : ops = BurnOpsIf(mode, lfuse, hfuse, efuse, e)
    /\ read_lfuse = 0 /\ read_hfuse = 0 /\ read_efuse = 0
    /\ fn = "loop"
    /\ call = NoCall
    /\ button = NoButton
    /\ ask = NoAsk
    /\ access = NoAccess

BurnNext ==
    \/ CallHVSPWrite \/ CallFuseBurn \/ ReturnFn
    \/ DigitalWrite \/ Delay \/ WritePORTD \/ WriteDDRD
    \/ WaitReady \/ TargetReady

BurnSpec == BurnInit /\ [][BurnNext]_vars

IsPrefix(a, b) == Len(a) <= Len(b) /\ a = SubSeq(b, 1, Len(a))

\* C12 as the specification states it: in every mode the High fuse is
\* burned before the Low fuse, and the Extended fuse after both.
C12_HighBeforeLow ==
    IsPrefix(access.order, << HFUSE_SEL, LFUSE_SEL, EFUSE_SEL >>)

\* C12, amended: in the two parallel modes the High fuse is burned before
\* the Low fuse; in HVSP mode the Low fuse is burned before the High fuse;
\* in every mode the Extended fuse, when enabled, is burned after both.
C12_BurnOrder ==
    IF mode = HVSP
    THEN IsPrefix(access.order, << LFUSE_SEL, HFUSE_SEL, EFUSE_SEL >>)
    ELSE IsPrefix(access.order, << HFUSE_SEL, LFUSE_SEL, EFUSE_SEL >>)

C12_Witness ==
    /\ mode = HVSP /\ pc = "burn" /\ ops = << >>
    /\ access.order = << LFUSE_SEL, HFUSE_SEL, EFUSE_SEL >>
    /\ hw.tfuse = (LFUSE_SEL :> lfuse) @@ (HFUSE_SEL :> hfuse) @@ (EFUSE_SEL :> efuse)

---------------------------------------------------------------------------
(* Properties of the pins and the data bus (Spec).                         *)

\* C13: whenever the sketch reads a control line, the line is configured as
\* an input: BUTTON at the two reads of the debounce loop, RDY at the poll
\* of fuse_burn, SDO at every sample of HVSP_read and at the poll that
\* follows the HVSP write frames.
C13_ReadsAreInputs ==
    /\ (AtOp("wait") \/ AtOp("sample")) => hw.dir[Head(ops).a] = INPUT
    /\ (BlockDone("prompt") \/ BlockDone("confirm")) => hw.dir[BUTTON] = INPUT

C13_Witness ==
    /\ mode = HVSP /\ pc = "read" /\ AtOp("sample")
    /\ Head(ops).a = SDO /\ hw.dir[SDO] = INPUT /\ hw.pulses = 1

ParallelFns == {"fuse_burn", "fuse_read"}

\* the byte a strobe of XTAL1 transfers: the command of the running function
\* while XA1 is high (command load), the fuse value while XA0 is high (data load)
Transferred ==
    IF hw.level[XA1] = HIGH /\ hw.level[XA0] = LOW
    THEN (IF fn = "fuse_burn" THEN 64 ELSE 4)
    ELSE call.b

AtXtalWrite == AtOp("digitalWrite") /\ Head(ops).a = XTAL1

HostInProg == hw.level[VCC] = HIGH /\ hw.level[RST] = LOW

\* C14: in send_cmd and in the data load of fuse_burn the data bus is an
\* output carrying the byte to transfer from before XTAL1 is raised until
\* after it is lowered again, and it is an input again before the next
\* statement other than the release of the bus; while VCC is on and RST is
\* low the bus is an output at no other time, and it is an input when
\* fuse_burn and fuse_read return.
C14_BusDuringStrobe ==
    /\ (AtXtalWrite \/ hw.level[XTAL1] = HIGH
            \/ (AtOp("PORTD") /\ hw.DDRD # 0 /\ HostInProg))
          => /\ fn \in ParallelFns
             /\ hw.DDRD = 255 /\ hw.PORTD = Transferred
    /\ (hw.DDRD # 0 /\ HostInProg)
          => /\ fn \in ParallelFns /\ hw.DDRD = 255
             /\ \/ AtXtalWrite \/ AtOp("delay") \/ AtOp("PORTD") \/ AtOp("DDRD")
    /\ (AtOp("return") /\ fn \in ParallelFns) => hw.DDRD = 0

C14_Witness ==
    /\ fn = "fuse_burn" /\ hw.level[XTAL1] = HIGH /\ hw.level[XA0] = HIGH
    /\ call.b = 17 /\ hw.PORTD = 17 /\ hw.DDRD = 255

---------------------------------------------------------------------------
(* Properties of fuse_burn and fuse_read (EngineSpec).                     *)

AtWrite(pin, lvl) ==
    AtOp("digitalWrite") /\ Head(ops).a = pin /\ Head(ops).b = lvl

HasPoll(s) == \E i \in 1..Len(s) : s[i].op = "wait"

SelectLines == << hw.level[BS1], hw.level[BS2(mode)] >>

Lvl(n) == IF n = 1 THEN HIGH ELSE LOW

\* the levels (BS1, BS2) the switch of fuse_burn writes for a selector
BurnLines(md, select) ==
    LET sel == fuse_burn_select(md, select)
    IN  << Lvl(sel[1].b), Lvl(sel[2].b) >>

\* C15: fuse_burn(fuse, select) first has the command 0x40 latched by a
\* strobe of XTAL1, then the fuse value latched by a second strobe, then
\* sets the select lines, then drives WR low and high again, then polls RDY;
\* past the poll RDY reads high and WR has been pulsed, and fuse_burn
\* returns with BS1 and BS2 low.
C15_BurnSequence ==
    fn = "fuse_burn" =>
      /\ (AtWrite(XTAL1, 1) /\ hw.level[XA1] = HIGH)
            => (HostBus(hw) = 64 /\ hw.tlatch = 0 /\ access.burn[call.c] = << >>)
      /\ (AtWrite(XTAL1, 1) /\ hw.level[XA0] = HIGH)
            => (hw.tcmd = 64 /\ HostBus(hw) = call.b /\ access.burn[call.c] = << >>)
      /\ AtWrite(WR, 0)
            => /\ hw.tcmd = 64 /\ hw.tlatch = call.b
               /\ hw.level[XTAL1] = LOW /\ hw.DDRD = 0
               /\ SelectLines = BurnLines(mode, call.c)
      /\ AtWrite(WR, 1)
            => (hw.level[WR] = LOW /\ access.burn[call.c] = SelectLines)
      /\ AtOp("wait")
            => (hw.level[WR] = HIGH /\ access.burn[call.c] = SelectLines)
      /\ ~HasPoll(ops)
            => /\ digitalRead(mode, hw, RDY) = HIGH
               /\ hw.level[WR] = HIGH /\ access.burn[call.c] # << >>
      /\ AtOp("return") => SelectLines = << LOW, LOW >>

C15_Witness ==
    /\ fn = "fuse_burn" /\ AtOp("return")
    /\ call.c = EFUSE_SEL /\ call.b = 165 /\ hw.tfuse[EFUSE_SEL] = 165
    /\ digitalRead(mode, hw, RDY) = HIGH

\* the levels (BS1, BS2) the switch of fuse_read writes for a selector
ReadLines(md, select) ==
    LET sel == fuse_read_select(md, select)
    IN  << Lvl(sel[2].b), Lvl(sel[1].b) >>

HasBusRead(s) == \E i \in 1..Len(s) : s[i].op = "PIND"

\* C16: fuse_read(select) first has the command 0x04 latched by a strobe of
\* XTAL1, then makes the bus an input, sets the select lines, drives OE low,
\* reads the bus and drives OE high; the bus is read only while OE is low
\* and the bus is an input, and fuse_read returns with OE high and the byte
\* that was on the bus.
C16_ReadSequence ==
    /\ AtOp("PIND")
          => /\ fn = "fuse_read"
             /\ hw.level[OE] = LOW /\ hw.DDRD = 0
             /\ access.read[call.c] = SelectLines
    /\ fn = "fuse_read" =>
          /\ AtWrite(XTAL1, 1)
                => (HostBus(hw) = 4 /\ access.read[call.c] = << >>)
          /\ AtWrite(OE, 0)
                => /\ hw.tcmd = 4 /\ hw.DDRD = 0 /\ hw.level[XTAL1] = LOW
                   /\ SelectLines = ReadLines(mode, call.c)
                   /\ HasBusRead(ops)
          /\ AtWrite(OE, 1)
                => (hw.level[OE] = LOW /\ ~HasBusRead(ops))
          /\ AtOp("return")
                => (hw.level[OE] = HIGH /\ hw.fuse = hw.tfuse[call.c])

C16_Witness ==
    /\ fn = "fuse_read" /\ AtOp("return")
    /\ call.c = HFUSE_SEL /\ hw.fuse = 165 /\ hw.level[OE] = HIGH

\* fuse_burn is at its WR pulse: about to drive WR low, or WR is low
AtWrPulse == fn = "fuse_burn" /\ (AtWrite(WR, 0) \/ hw.level[WR] = LOW)

---------------------------------------------------------------------------
(* Properties of the bits of a frame (FrameSpec).                          *)

\* SCI is about to be raised, or is high: clock pulse hw.pulses + 1
InPulse == fn \in FrameFns /\ (AtWrite(SCI, 1) \/ hw.level[SCI] = HIGH)

\* C18: in every frame of HVSP_read and HVSP_write, for every data and
\* instruction byte, SDI and SII are both low during clock pulse 1, carry
\* bit 7-k of the data byte and bit 7-k of the instruction byte during
\* pulse k+2 (k = 0..7, most significant bit first), and are both low
\* during pulses 10 and 11.
C18_FrameBits ==
    InPulse =>
        LET p == hw.pulses + 1 IN
        IF p = 1 \/ p >= 10
        THEN hw.level[SDI] = LOW /\ hw.level[SII] = LOW
        ELSE /\ hw.level[SDI] = Lvl(Bit(call.b, 9 - p))
             /\ hw.level[SII] = Lvl(Bit(call.c, 9 - p))

C18_Witness ==
    /\ fn = "HVSP_read" /\ hw.level[SCI] = HIGH /\ hw.pulses = 2
    /\ call.b = 64 /\ call.c = HVSP_READ_LFUSE_INSTR1
    /\ hw.level[SDI] = HIGH /\ hw.level[SII] = HIGH

---------------------------------------------------------------------------
(* Properties of the sampling of SDO (EngineSpec, HVSP mode).              *)

\* the statements left in the running function: up to its return
FrameRest ==
    LET i == CHOOSE k \in 1..Len(ops) :
                 /\ ops[k].op = "return"
                 /\ \A j \in 1..(k - 1) : ops[j].op # "return"
    IN  SubSeq(ops, 1, i)

SamplesLeft == Cardinality({i \in 1..Len(FrameRest) : FrameRest[i].op = "sample"})

\* the n most significant bits of a byte, the others zero
HighBits(x, n) == (x \div Pow2(8 - n)) * Pow2(8 - n)

\* the byte SDO presents after pulses 1..8 of the running frame: the fuse
\* addressed by a read instruction, or all ones when the target drives
\* no data
Presented == IF hw.toe THEN hw.tout ELSE 255

ReadInstr3 ==
    {HVSP_READ_LFUSE_INSTR3, HVSP_READ_HFUSE_INSTR3, HVSP_READ_EFUSE_INSTR3}

\* C19: HVSP_read samples SDO 8 times per frame, each time right after one
\* of the clock pulses 1 to 8 and never after pulses 9, 10 and 11; the
\* sample after pulse 1 is stored in bit 7 of the response and the sample
\* after pulse j (j = 2..8) in bit 8-j, so that the response holds the
\* samples taken so far, most significant first, and the byte returned is
\* the 8 samples in order.
C19_Sampling ==
    fn = "HVSP_read" =>
        LET taken == 8 - SamplesLeft IN
        /\ AtOp("sample")
              => /\ hw.pulses \in 1..8 /\ hw.level[SCI] = LOW
                 /\ Head(ops).a = SDO /\ Head(ops).b = 8 - hw.pulses
                 /\ taken = hw.pulses - 1
        /\ ~AtOp("sample") => taken = Min(hw.pulses, 8)
        /\ (hw.pulses <= 9 /\ ~AtOp("response"))
              => hw.response = HighBits(Presented, taken)
        /\ (AtOp("return") /\ call.c \in ReadInstr3)
              => hw.response = hw.tout

C19_Witness ==
    /\ fn = "HVSP_read" /\ AtOp("return")
    /\ call.a = "read_hfuse" /\ hw.response = 165 /\ hw.pulses = 11

---------------------------------------------------------------------------
(* Properties of the HVSP fuse read (EngineSpec, HVSP mode).               *)

\* the instruction bytes of the table for reading a fuse, lines 155-183
ReadInstr(select) ==
    IF select = LFUSE_SEL
        THEN << HVSP_READ_LFUSE_INSTR1, HVSP_READ_LFUSE_INSTR2, HVSP_READ_LFUSE_INSTR3 >>
    ELSE IF select = HFUSE_SEL
        THEN << HVSP_READ_HFUSE_INSTR1, HVSP_READ_HFUSE_INSTR2, HVSP_READ_HFUSE_INSTR3 >>
    ELSE << HVSP_READ_EFUSE_INSTR1, HVSP_READ_EFUSE_INSTR2, HVSP_READ_EFUSE_INSTR3 >>

\* o is the call of frame n of the read of a selector: (data, instruction)
IsReadFrame(o, select, n) ==
    /\ o.op = "HVSP_read"
    /\ o.b = (IF n = 1 THEN 4 ELSE 0)
    /\ o.c = ReadInstr(select)[n]

\* loop() is about to call HVSP_read
AtReadCall == fn = "loop" /\ ops # << >> /\ Head(ops).op = "HVSP_read"

\* the call of HVSP_read returns to loop() in this step
ReadReturns == fn = "HVSP_read" /\ fn' = "loop"

ReadBack == << read_lfuse, read_hfuse, read_efuse >>

\* loop() is entered anew in this step, with fresh locals
LoopEntered == pc \in {"setup", "exit"} /\ pc' = "prompt"

\* C20: in HVSP mode every fuse read is three consecutive HVSP_read frames
\* with the instruction bytes of the selector, the first with data 0x04,
\* the second and third with data 0x00; the read-back value of the selector
\* is assigned the response of the third frame, and within one run of
\* loop() a read-back value changes at no other step: not when the first
\* or second frame returns.
C20_ThreeFrames ==
    [][ /\ AtReadCall =>
              \E s \in Selectors :
                 \/ /\ Len(ops) >= 3
                    /\ IsReadFrame(ops[1], s, 1) /\ IsReadFrame(ops[2], s, 2)
                    /\ IsReadFrame(ops[3], s, 3)
                    /\ ~(\E t \in Selectors :
                            IsReadFrame(call, t, 1) \/ IsReadFrame(call, t, 2))
                 \/ /\ Len(ops) >= 2
                    /\ IsReadFrame(call, s, 1) /\ IsReadFrame(ops[1], s, 2)
                    /\ IsReadFrame(ops[2], s, 3)
                 \/ /\ IsReadFrame(call, s, 2) /\ IsReadFrame(ops[1], s, 3)
        /\ ReadReturns =>
              \/ /\ IsReadFrame(call, LFUSE_SEL, 3)
                 /\ ReadBack' = << hw.response, read_hfuse, read_efuse >>
              \/ /\ IsReadFrame(call, HFUSE_SEL, 3)
                 /\ ReadBack' = << read_lfuse, hw.response, read_efuse >>
              \/ /\ IsReadFrame(call, EFUSE_SEL, 3)
                 /\ ReadBack' = << read_lfuse, read_hfuse, hw.response >>
              \/ /\ \E s \in Selectors :
                       IsReadFrame(call, s, 1) \/ IsReadFrame(call, s, 2)
                 /\ ReadBack' = ReadBack
        /\ (mode = HVSP /\ ~ReadReturns /\ ~LoopEntered) => ReadBack' = ReadBack
      ]_vars

C20_Witness ==
    /\ mode = HVSP /\ EngineDone
    /\ IsReadFrame(call, LFUSE_SEL, 3)
    /\ read_lfuse = 165 /\ hw.tfuse[LFUSE_SEL] = 165

---------------------------------------------------------------------------
(* Properties of the HVSP fuse write (BurnSpec, HVSP mode).                *)

\* the instruction bytes of the table for writing a fuse, lines 155-189
WriteInstr(select) ==
    IF select = LFUSE_SEL
        THEN << HVSP_WRITE_LFUSE_INSTR1, HVSP_WRITE_LFUSE_INSTR2,
                HVSP_WRITE_LFUSE_INSTR3, HVSP_WRITE_LFUSE_INSTR4 >>
    ELSE IF select = HFUSE_SEL
        THEN << HVSP_WRITE_HFUSE_INSTR1, HVSP_WRITE_HFUSE_INSTR2,
                HVSP_WRITE_HFUSE_INSTR3, HVSP_WRITE_HFUSE_INSTR4 >>
    ELSE << HVSP_WRITE_EFUSE_INSTR1, HVSP_WRITE_EFUSE_INSTR2,
            HVSP_WRITE_EFUSE_INSTR3, HVSP_WRITE_EFUSE_INSTR4 >>

\* the value loop() holds for a fuse: lfuse, hfuse or efuse
Desired(select) ==
    IF select = LFUSE_SEL THEN lfuse
    ELSE IF select = HFUSE_SEL THEN hfuse ELSE efuse

\* o is the call of frame n of the write of a selector: (data, instruction)
IsWriteFrame(o, select, n) ==
    /\ o.op = "HVSP_write"
    /\ o.b = (IF n = 1 THEN 64 ELSE IF n = 2 THEN Desired(select) ELSE 0)
    /\ o.c = WriteInstr(select)[n]

\* o is the poll of SDO: while(digitalRead(SDO) == LOW);
IsSdoPoll(o) == o.op = "wait" /\ o.a = SDO

\* loop() is about to call HVSP_write
AtWriteCall == fn = "loop" /\ ops # << >> /\ Head(ops).op = "HVSP_write"

\* the call of HVSP_write returns to loop() in this step
WriteReturns == fn = "HVSP_write" /\ fn' = "loop"

\* loop() leaves the poll in this step
PollLeft == fn = "loop" /\ ops # << >> /\ IsSdoPoll(Head(ops)) /\ ops' = Tail(ops)

\* C21: in HVSP mode every fuse write is four consecutive HVSP_write frames
\* with the instruction bytes of the selector: the first with data 0x40,
\* the second with the fuse value to program, the third and fourth with
\* data 0x00.  The statement after the fourth frame is the poll of SDO, and
\* loop() leaves the poll, and so starts the next frame, only in a step in
\* which SDO reads HIGH.
C21_FourFrames ==
    [][ mode = HVSP =>
        /\ AtWriteCall =>
              \E s \in Selectors :
                 \/ /\ Len(ops) >= 5
                    /\ IsWriteFrame(ops[1], s, 1) /\ IsWriteFrame(ops[2], s, 2)
                    /\ IsWriteFrame(ops[3], s, 3) /\ IsWriteFrame(ops[4], s, 4)
                    /\ IsSdoPoll(ops[5])
                    /\ \/ call = NoCall
                       \/ \E t \in Selectors : IsWriteFrame(call, t, 4)
                 \/ /\ Len(ops) >= 4
                    /\ IsWriteFrame(call, s, 1) /\ IsWriteFrame(ops[1], s, 2)
                    /\ IsWriteFrame(ops[2], s, 3) /\ IsWriteFrame(ops[3], s, 4)
                    /\ IsSdoPoll(ops[4])
                 \/ /\ Len(ops) >= 3
                    /\ IsWriteFrame(call, s, 2) /\ IsWriteFrame(ops[1], s, 3)
                    /\ IsWriteFrame(ops[2], s, 4) /\ IsSdoPoll(ops[3])
                 \/ /\ Len(ops) >= 2
                    /\ IsWriteFrame(call, s, 3) /\ IsWriteFrame(ops[1], s, 4)
                    /\ IsSdoPoll(ops[2])
        /\ (WriteReturns /\ \E s \in Selectors : IsWriteFrame(call, s, 4))
              => (ops' # << >> /\ IsSdoPoll(Head(ops')))
        /\ PollLeft => digitalRead(mode, hw, SDO) = HIGH
      ]_vars

C21_Witness ==
    /\ mode = HVSP /\ fn = "loop" /\ ops = << >>
    /\ IsWriteFrame(call, HFUSE_SEL, 4)
    /\ access.order = << LFUSE_SEL, HFUSE_SEL >>
    /\ hfuse = 98 /\ hw.tfuse[HFUSE_SEL] = 98 /\ ~hw.tbusy

---------------------------------------------------------------------------
(* Properties of fuse_ask on a given input stream (AskSpec).               *)

\* the hexadecimal digits in order of value: '0'..'9', 'A'..'F'
HexDigits == << 48, 49, 50, 51, 52, 53, 54, 55, 56, 57, 65, 66, 67, 68, 69, 70 >>

\* the value of a hexadecimal digit: its place in HexDigits
HexValue(c) == (CHOOSE i \in 1..16 : HexDigits[i] = c) - 1

\* the stream holds an 'x' followed by n more characters
HasX(s, n) == \E i \in 1..Len(s) : s[i] = 120 /\ i + n <= Len(s)

\* the place of the first 'x' in a stream that holds one
FirstX(s) == CHOOSE i \in 1..Len(s) : s[i] = 120 /\ \A j \in 1..(i - 1) : s[j] # 120

\* C22: for every input stream, fuse_ask reads and discards the characters
\* up to and including the first 'x' (it keeps nothing of them and assigns
\* nothing), takes the next two characters h and l of the stream as they
\* are, and when both are hexadecimal digits ('0'-'9', 'A'-'F') it returns
\* 16 * value(h) + value(l).
C22_FuseAsk ==
    LET s == hw.rx
        k == FirstX(s)
    IN  /\ ask.stage = "x"
              => /\ \A i \in 1..hw.rxn : s[i] # 120
                 /\ ask.hi = 0 /\ ask.lo = 0 /\ lfuse = 0
        /\ (ask.stage \in {"hi", "lo", "done"} /\ HasX(s, 0))
              => hw.rxn >= k
        /\ (ask.stage = "hi" /\ HasX(s, 0))
              => (hw.rxn = k /\ ask.hi = 0 /\ ask.lo = 0 /\ lfuse = 0)
        /\ (ask.stage = "lo" /\ HasX(s, 1))
              => (hw.rxn = k + 1 /\ ask.hi = s[k + 1] /\ lfuse = 0)
        /\ (ask.stage = "done" /\ HasX(s, 2))
              => (hw.rxn = k + 2 /\ ask.hi = s[k + 1] /\ ask.lo = s[k + 2])
        /\ (ask.stage = "done" /\ IsHexDigit(ask.hi) /\ IsHexDigit(ask.lo))
              => (fn = "loop" /\ lfuse = 16 * HexValue(ask.hi) + HexValue(ask.lo))

\* the stream "Gx3F" has been read and 0x3F returned
C22_Witness ==
    /\ hw.rx = << 71, 120, 51, 70 >> /\ hw.rxn = 4
    /\ ask.stage = "done" /\ fn = "loop" /\ lfuse = 63

---------------------------------------------------------------------------
(* Properties of the supply and the 12 V reset (Spec).                     *)

\* C23: in every state from the end of setup() on, in every session,
\* whenever the 12 V enable is asserted (RST low, the level shifter is
\* inverting) VCC is high: 12 V is never on RESET of a target whose supply
\* is off.
C23_ResetNeedsVcc == hw.level[RST] = LOW => hw.level[VCC] = HIGH

\* 12 V is applied, in the burn block, with VCC on
C23_Witness ==
    /\ pc = "burn" /\ hw.level[RST] = LOW /\ hw.level[VCC] = HIGH
    /\ access.order # << >>

---------------------------------------------------------------------------
(* Properties of the UART, which shares DATA0 and DATA1 with the bus       *)
(* (Spec).                                                                 *)

\* the blocks of loop() that access the fuses
FuseBlocks == {"read", "burn", "verify"}

\* C24: the serial port is closed during every fuse read and every fuse
\* burn: while fuse_read, fuse_burn (and the send_cmd they call), HVSP_read
\* or HVSP_write runs, and all through the read, burn and verify blocks of
\* loop(), the last Serial call was Serial.end(); and the burn block is
\* entered only with the transmit-complete flag TXC0 set, which line 739
\* has waited for.
C24_SerialClosed ==
    /\ fn \in EngineFns => (~hw.Serial /\ pc \in FuseBlocks)
    /\ pc \in FuseBlocks => ~hw.Serial
    /\ pc = "burn" => hw.TXC0

\* send_cmd is strobing the write-fuse command with the port closed
C24_Witness ==
    /\ pc = "burn" /\ fn = "fuse_burn" /\ AtXtalWrite
    /\ hw.PORTD = 64 /\ hw.DDRD = 255
    /\ ~hw.Serial /\ hw.TXC0 /\ "Burning fuses..." \in hw.console

---------------------------------------------------------------------------
(* HVSP_write against HVSP_read (FrameSpec).                               *)

\* a statement that drives the serial lines or lets time pass
IsDrive(o) == o.op \in {"digitalWrite", "delay"}

\* the statements of a function body that drive the lines, in order
Drives(s) == SelectSeq(s, IsDrive)

\* the other frame function, called with the arguments of the running one
Counterpart ==
    IF fn = "HVSP_write" THEN HVSP_read(call.b, call.c)
    ELSE HVSP_write(call.b, call.c)

\* the levels of the three lines the host drives and the pulses made
SerialLines(h) == << h.level[SCI], h.level[SDI], h.level[SII], h.pulses >>

\* C25: for every data byte and instruction byte, HVSP_write and HVSP_read
\* called with the same arguments make the same writes of SCI, SDI and SII
\* with the same delays in the same order: at every point of a frame the
\* driving statements the running function has still to execute are those
\* the other function would execute from there, and at the return the
\* three lines and the count of pulses are where the other function's
\* driving statements put them.  What HVSP_read does besides is to clear
\* its response, sample SDO and return; HVSP_write samples nothing.
C25_SameDrive ==
    fn \in FrameFns =>
        LET other == Drives(Counterpart)
            rest == Drives(FrameRest)
            read == HVSP_read(call.b, call.c)
        IN  /\ Len(rest) <= Len(other)
            /\ rest = SubSeq(other, Len(other) - Len(rest) + 1, Len(other))
            /\ AtOp("return")
                  => SerialLines(hw)
                       = SerialLines(RunOps(mode, other, 1, Entered(mode, "good")))
            /\ \A i \in 1..Len(read) :
                   \/ IsDrive(read[i])
                   \/ read[i].op \in {"response", "return"}
                   \/ read[i].op = "sample" /\ read[i].a = SDO
            /\ fn = "HVSP_write"
                  => /\ \A i \in 1..Len(FrameRest) :
                           IsDrive(FrameRest[i]) \/ FrameRest[i].op = "return"
                     /\ hw.response = 0

\* HVSP_write has clocked 0xA5 with an instruction byte and is to return
C25_Witness ==
    /\ fn = "HVSP_write" /\ AtOp("return")
    /\ call.b = 165 /\ call.c = HVSP_WRITE_HFUSE_INSTR4
    /\ hw.pulses = 11 /\ hw.level[SCI] = LOW

---------------------------------------------------------------------------
(* Termination of a session (FairSpec).                                    *)

\* the button has been read pressed at line 627 and again, 100 ms later,
\* at line 629
PressedTwice == button.first = LOW /\ button.gap = 100 /\ button.second = LOW

\* the host finds the line it polls low: lines 318, 750, 756, 763
Polling == AtOp("wait") /\ digitalRead(mode, hw, Head(ops).a) = LOW

\* a session has started: loop() is past the debounce loop, at line 632
Started == pc = "init"

\* the exit sequence is done: 12 V off RESET, VCC off, line 837
Exited ==
    /\ pc = "exit" /\ ops = << >>
    /\ hw.level[RST] = HIGH /\ hw.level[VCC] = LOW

\* loop() is at the button wait of line 627 again
Waiting == BlockDone("prompt")

\* C26: if the button is eventually read pressed on two reads 100 ms
\* apart, fuse_ask does not wait for the operator for ever, and the host
\* does not find its ready line low for ever, then every session that
\* starts reaches the end of the exit sequence, with the 12 V enable and
\* VCC released, and from there loop() comes back to the button wait.
C26_SessionEnds ==
    (<>PressedTwice /\ []<>(fn # "fuse_ask") /\ []<>~Polling)
        => ((Started ~> Exited) /\ (Exited ~> Waiting))

\* a session has run to the end of the exit sequence
C26_Witness ==
    /\ Exited /\ PressedTwice
    /\ "Burn complete." \in hw.console
    /\ access.order # << >>

===========================================================================
